---------------------------- MODULE Spec2Model ----------------------------
(***************************************************************************)
(* Model of network_to_3D_4.py: the CSV loader (load_network and its       *)
(* nested parse_relations), the force-directed layout (apply_layout) and   *)
(* the metric computation of export_json.                                  *)
(*                                                                         *)
(* Text is modelled as a sequence of one-character strings, so that        *)
(* trimming, comma splitting and the annotation pattern work on            *)
(* characters as the Python code does.  An emoji is one character and is   *)
(* written by its name ("TROPHY").  Python floats are modelled in fixed    *)
(* point: a value v is the integer nearest to v * Scale.                   *)
(***************************************************************************)
EXTENDS Integers, Sequences, FiniteSets, TLC

VARIABLES
    pc,                 \* position of the running program
    header,             \* load_network: set of columns the header row resolves
    nodes,              \* load_network: dict name -> node, in insertion order
    temp_dependencies,  \* load_network: dict name -> raw depends-on text
    temp_requirements,  \* load_network: dict name -> raw required-by text
    edges,              \* list of [source, target]
    raised,             \* the exception that left the running function, or None
    last_row,           \* history: identity text -> last row read with it (times: 1, or 2 for several)
    nread,              \* history: number of rows read
    raw_str,            \* parse_relations: the cell being parsed
    nfrags,             \* parse_relations: fragments the cell was built from
    clean_targets,      \* parse_relations: the returned list
    node_list,          \* apply_layout / export_json: the list of nodes
    nodes0,             \* history: node_list when apply_layout was called
    edges0,             \* history: edges when apply_layout was called
    layout_type,        \* apply_layout: its third parameter
    iter,               \* apply_layout: completed iterations of the outer loop
    idx,                \* apply_layout: position inside the current pass
    pass_start          \* history: node_list when the current repulsion pass began

vars == <<pc, header, nodes, temp_dependencies, temp_requirements, edges, raised,
          last_row, nread, raw_str, nfrags, clean_targets, node_list, nodes0,
          edges0, layout_type, iter, idx, pass_start>>

loadVars == <<header, nodes, temp_dependencies, temp_requirements, last_row, nread>>
parseVars == <<raw_str, nfrags, clean_targets>>
layoutVars == <<nodes0, edges0, layout_type, iter, idx, pass_start>>

\* None as a cell value: a text no cell can hold (no character is "None")
None == <<"None">>
\* None as a column key, and as "no exception"
NoKey == "None"
NoException == "None"

(***************************************************************************)
(* Text helpers                                                            *)
(***************************************************************************)
Whitespace == {" "}

SetMin(S) == CHOOSE m \in S : \A k \in S : m <= k
SetMax(S) == CHOOSE m \in S : \A k \in S : m >= k

\* str.strip()
strip(s) ==
    LET keep == {i \in 1..Len(s) : s[i] \notin Whitespace}
    IN  IF keep = {} THEN <<>> ELSE SubSeq(s, SetMin(keep), SetMax(keep))

\* sub in s
Contains(sub, s) ==
    \E i \in 0..(Len(s) - Len(sub)) : SubSeq(s, i + 1, i + Len(sub)) = sub

RECURSIVE Flatten(_)
Flatten(ss) == IF ss = <<>> THEN <<>> ELSE Head(ss) \o Flatten(Tail(ss))

(***************************************************************************)
(* parse_relations                                                         *)
(***************************************************************************)
\* the scan that splits on every comma, whatever the depth
RECURSIVE ScanCharsAnyDepth(_, _, _, _, _)
ScanCharsAnyDepth(raw, i, current, paren_depth, targets) ==
    IF i > Len(raw)
    THEN IF strip(current) # <<>> THEN Append(targets, strip(current)) ELSE targets
    ELSE LET char == raw[i] IN
         IF char = ","
         THEN ScanCharsAnyDepth(raw, i + 1, <<>>, paren_depth,
                                IF strip(current) # <<>>
                                THEN Append(targets, strip(current)) ELSE targets)
         ELSE ScanCharsAnyDepth(raw, i + 1, Append(current, char), paren_depth, targets)

\* the scanning loop of parse_relations, from character i on
RECURSIVE ScanChars(_, _, _, _, _)
ScanChars(raw, i, current, paren_depth, targets) ==
    IF i > Len(raw)
    THEN IF strip(current) # <<>> THEN Append(targets, strip(current)) ELSE targets
    ELSE LET char == raw[i] IN
         IF char = "("
         THEN ScanChars(raw, i + 1, Append(current, char), paren_depth + 1, targets)
         ELSE IF char = ")"
         THEN ScanChars(raw, i + 1, Append(current, char), paren_depth - 1, targets)
         ELSE IF char = "," /\ paren_depth = 0
         THEN ScanChars(raw, i + 1, <<>>, paren_depth,
                        IF strip(current) # <<>>
                        THEN Append(targets, strip(current)) ELSE targets)
         ELSE ScanChars(raw, i + 1, Append(current, char), paren_depth, targets)

ExtCsv == <<".", "c", "s", "v", ")">>
ExtMd == <<".", "m", "d", ")">>

\* r'\s+\([^()]*%.*?\.(csv|md)\)\s*$' matches target from position p to its end
AnnotationAt(target, p) ==
    LET n == Len(target)
        keep == {i \in 1..n : target[i] \notin Whitespace}
        last == IF keep = {} THEN 0 ELSE SetMax(keep)     \* \s*$ takes the rest
    IN  /\ target[p] \in Whitespace
        /\ \E q \in (p + 1)..n :
             /\ \A k \in p..(q - 1) : target[k] \in Whitespace          \* \s+
             /\ target[q] = "("                                         \* \(
             /\ \E r \in (q + 1)..n :
                  /\ \A k \in (q + 1)..(r - 1) : target[k] \notin {"(", ")"}  \* [^()]*
                  /\ target[r] = "%"                                    \* %
                  /\ \E ext \in {ExtCsv, ExtMd} :                       \* .*?\.(csv|md)\)
                       /\ last - Len(ext) + 1 > r
                       /\ SubSeq(target, last - Len(ext) + 1, last) = ext

\* re.sub(pattern, '', target, flags=re.DOTALL).strip()
CleanName(target) ==
    LET starts == {p \in 1..Len(target) : AnnotationAt(target, p)}
    IN  IF starts = {} THEN strip(target)
        ELSE strip(SubSeq(target, 1, SetMin(starts) - 1))

RECURSIVE CleanAll(_)
CleanAll(targets) ==
    IF targets = <<>> THEN <<>>
    ELSE LET clean_name == CleanName(Head(targets)) IN
         IF clean_name # <<>> THEN <<clean_name>> \o CleanAll(Tail(targets))
         ELSE CleanAll(Tail(targets))

parse_relations(raw) == CleanAll(ScanChars(raw, 1, <<>>, 0, <<>>))

(***************************************************************************)
(* Fixed-point numbers                                                     *)
(***************************************************************************)
\* resolution of the fixed-point model of a Python float: v is v * Scale
Scale == 1000

Abs(a) == IF a < 0 THEN -a ELSE a

\* a / b rounded to the nearest integer, symmetric about 0 (b > 0)
Div(a, b) == IF a >= 0 THEN (2 * a + b) \div (2 * b) ELSE -((2 * (-a) + b) \div (2 * b))

(***************************************************************************)
(* emoji_to_num                                                            *)
(***************************************************************************)
fam_map == <<
    [key |-> <<"TROPHY", " ", "P", "r", "o", "f", "i", "s", "s", "i", "o", "n", "a", "l">>, val |-> 5],
    [key |-> <<"TROPHY">>, val |-> 5],
    [key |-> <<"MUSCLE", " ", "C", "o", "n", "f", "i", "a", "n", "t", "e">>, val |-> 4],
    [key |-> <<"MUSCLE">>, val |-> 4],
    [key |-> <<"BOOKS", " ", "F", "a", "m", "i", "l", "i", "a", "r">>, val |-> 3],
    [key |-> <<"BOOKS">>, val |-> 3],
    [key |-> <<"SEEDLING", " ", "I", "n", "i", "c", "i", "a", "n", "t", "e">>, val |-> 2],
    [key |-> <<"SEEDLING">>, val |-> 2],
    [key |-> <<"QUESTION", " ", "D", "e", "s", "c", "o", "n", "h", "e", "c", "i", "d", "a">>, val |-> 1],
    [key |-> <<"QUESTION">>, val |-> 1] >>

int_map == <<
    [key |-> <<"STAR">>, val |-> 5],
    [key |-> <<"FIRE">>, val |-> 4],
    [key |-> <<"THUMBSUP">>, val |-> 3],
    [key |-> <<"NEUTRAL">>, val |-> 2],
    [key |-> <<"SHRUG">>, val |-> 1] >>

\* "if emoji_str in m": the entry with that key, or 0
ExactHit(m, s) ==
    LET hits == {i \in 1..Len(m) : m[i].key = s}
    IN  IF hits = {} THEN 0 ELSE SetMin(hits)

\* "for key in m: if key in emoji_str": the first such entry, or 0
InsideHit(m, s) ==
    LET hits == {i \in 1..Len(m) : Contains(m[i].key, s)}
    IN  IF hits = {} THEN 0 ELSE SetMin(hits)

emoji_to_num(emoji_str) ==
    IF emoji_str = None \/ emoji_str = <<>> THEN 0
    ELSE LET s == strip(emoji_str)
         IN  IF ExactHit(fam_map, s) # 0 THEN fam_map[ExactHit(fam_map, s)].val
             ELSE IF ExactHit(int_map, s) # 0 THEN int_map[ExactHit(int_map, s)].val
             ELSE IF InsideHit(fam_map, s) # 0 THEN fam_map[InsideHit(fam_map, s)].val
             ELSE IF InsideHit(int_map, s) # 0 THEN int_map[InsideHit(int_map, s)].val
             ELSE 0

(***************************************************************************)
(* float(cell or 0) inside try/except (ValueError, TypeError)              *)
(***************************************************************************)
Digits == <<"0", "1", "2", "3", "4", "5", "6", "7", "8", "9">>
DigitSet == {Digits[i] : i \in 1..10}
DigitVal(c) == (CHOOSE i \in 1..10 : Digits[i] = c) - 1

RECURSIVE DigitsVal(_)
DigitsVal(ds) ==
    IF ds = <<>> THEN 0 ELSE 10 * DigitsVal(SubSeq(ds, 1, Len(ds) - 1)) + DigitVal(ds[Len(ds)])

\* decimal literals float() accepts: [+-] digits [. digits], spaces around
IsFloatText(s) ==
    LET t == strip(s)
        u == IF t # <<>> /\ t[1] \in {"+", "-"} THEN Tail(t) ELSE t
        dots == {i \in 1..Len(u) : u[i] = "."}
    IN  /\ \A i \in 1..Len(u) : u[i] \in DigitSet \cup {"."}
        /\ Cardinality(dots) <= 1
        /\ \E i \in 1..Len(u) : u[i] \in DigitSet

FloatOfText(s) ==
    LET t == strip(s)
        neg == t[1] = "-"
        u == IF t[1] \in {"+", "-"} THEN Tail(t) ELSE t
        dots == {i \in 1..Len(u) : u[i] = "."}
        dot == IF dots = {} THEN Len(u) + 1 ELSE SetMin(dots)
        whole == SubSeq(u, 1, dot - 1)
        frac == SubSeq(u, dot + 1, Len(u))
        f1 == IF Len(frac) >= 1 THEN DigitVal(frac[1]) ELSE 0
        f2 == IF Len(frac) >= 2 THEN DigitVal(frac[2]) ELSE 0
        f3 == IF Len(frac) >= 3 THEN DigitVal(frac[3]) ELSE 0
        v == DigitsVal(whole) * Scale + Div((100 * f1 + 10 * f2 + f3) * Scale, 1000)
    IN  IF neg THEN -v ELSE v

\* the value a score field has after its try block; the field was 0 before
ScoreOf(cell) ==
    IF cell = None \/ cell = <<>> THEN 0           \* float(0)
    ELSE IF IsFloatText(cell) THEN FloatOfText(cell)
    ELSE 0                                         \* ValueError: pass

(***************************************************************************)
(* Python dicts: a sequence of [key, value] in insertion order             *)
(***************************************************************************)
DictKeys(d) == {d[i].key : i \in 1..Len(d)}
\* d.setdefault(k, v): an existing key keeps its value
DictSetDefault(d, k, v) ==
    IF k \in DictKeys(d) THEN d ELSE Append(d, [key |-> k, value |-> v])
\* d[k] = v: an existing key keeps its place
DictSet(d, k, v) ==
    IF k \in DictKeys(d)
    THEN [i \in 1..Len(d) |-> IF d[i].key = k THEN [key |-> k, value |-> v] ELSE d[i]]
    ELSE Append(d, [key |-> k, value |-> v])
\* list(d.values())
DictValues(d) == [i \in 1..Len(d) |-> d[i].value]

(***************************************************************************)
(* load_network: the input table                                           *)
(***************************************************************************)
\* rows read from one file
MaxRows == 3

Columns == {"name", "deps", "reqs", "fam", "int", "mkt",
            "req_score", "master_score", "req_indirect", "dep_indirect"}

\* headers of the input file, as the set of columns the header row resolves
HeaderPool == {Columns,
               Columns \ {"name"},
               {"name", "deps", "int", "req_score"}}

tA == <<"A">>
tB == <<"B">>

DepCells == {<<>>, <<"B", ",", " ", "B">>, <<"C", ",", "A">>}
ReqCells == {<<"A">>, <<"B", " ", "(", "%", ".", "m", "d", ")", ",", "C">>}

Attr1 == [fam |-> <<"TROPHY", " ", "P", "r", "o", "f", "i", "s", "s", "i", "o", "n", "a", "l">>,
          int |-> <<"STAR">>, mkt |-> <<"x", " ", "FIRE", " ", "x">>,
          req_score |-> <<"1", ".", "5">>, master_score |-> <<"2">>,
          req_indirect |-> <<"a", "b", "c">>, dep_indirect |-> <<>>]
Attr2 == [fam |-> <<"?", "?", "?">>, int |-> <<>>, mkt |-> <<" ", "SHRUG">>,
          req_score |-> <<>>, master_score |-> <<"x">>,
          req_indirect |-> <<"3">>, dep_indirect |-> <<"0", ".", "2", "5">>]

MkRow(n, d, r, a) ==
    [name |-> n, deps |-> d, reqs |-> r, fam |-> a.fam, int |-> a.int, mkt |-> a.mkt,
     req_score |-> a.req_score, master_score |-> a.master_score,
     req_indirect |-> a.req_indirect, dep_indirect |-> a.dep_indirect]

\* a row with fewer cells than the header: csv.DictReader fills the missing
\* cells with None (restval)
ShortRow(n, d) ==
    [c \in Columns |-> IF c = "name" THEN n ELSE IF c = "deps" THEN d ELSE None]

RowPool ==
    {MkRow(n, d, <<>>, Attr1) : n \in {tA, tB}, d \in DepCells}
    \cup {MkRow(n, <<>>, r, Attr1) : n \in {tA, tB}, r \in ReqCells}
    \cup {MkRow(tA, <<"C", ",", "A">>, <<"A">>, Attr1)}
    \cup {MkRow(n, <<>>, <<>>, Attr2) : n \in {<<" ", "A", " ">>, <<>>}}
    \cup {ShortRow(tA, None), ShortRow(tB, tA)}

\* values random.uniform(-10, 10) returns for x, y, z
PositionPool == {<<-10 * Scale, 0, 4 * Scale>>, <<3 * Scale, -7 * Scale, 10 * Scale>>}

(***************************************************************************)
(* load_network: column resolution and the row loop                        *)
(***************************************************************************)
KeyOf(h, column) == IF column \in h THEN column ELSE NoKey
name_key(h) == KeyOf(h, "name")
deps_key(h) == KeyOf(h, "deps")
reqs_key(h) == KeyOf(h, "reqs")
fam_key(h) == KeyOf(h, "fam")
int_key(h) == KeyOf(h, "int")
mkt_key(h) == KeyOf(h, "mkt")
req_score_key(h) == KeyOf(h, "req_score")
master_score_key(h) == KeyOf(h, "master_score")
req_indirect_key(h) == KeyOf(h, "req_indirect")
dep_indirect_key(h) == KeyOf(h, "dep_indirect")

\* row.get(key, '') if key else ''
RawOf(row, key) == IF key # NoKey THEN row[key] ELSE <<>>
\* the score field after "if key: try: float(row.get(key, 0) or 0)"
ScoreField(row, key) == IF key # NoKey THEN ScoreOf(row[key]) ELSE 0

\* the dict stored in nodes[name], scores included
NewNode(h, row, name, pos) ==
    [name |-> name,
     familiarity |-> RawOf(row, fam_key(h)),
     familiarity_num |-> emoji_to_num(RawOf(row, fam_key(h))),
     interest |-> RawOf(row, int_key(h)),
     interest_num |-> emoji_to_num(RawOf(row, int_key(h))),
     market |-> RawOf(row, mkt_key(h)),
     market_num |-> emoji_to_num(RawOf(row, mkt_key(h))),
     req_score |-> ScoreField(row, req_score_key(h)),
     master_score |-> ScoreField(row, master_score_key(h)),
     req_indirect |-> ScoreField(row, req_indirect_key(h)),
     dep_indirect |-> ScoreField(row, dep_indirect_key(h)),
     x |-> pos[1], y |-> pos[2], z |-> pos[3]]

\* row.get(key, '').strip() raises AttributeError on the None of a short row
StripRaises(row, key) == key # NoKey /\ row[key] = None

\* "if key: raw = row.get(key, '').strip(); if raw: temp[name] = raw"
StoreRaw(temp, row, key, name) ==
    IF key # NoKey /\ strip(row[key]) # <<>>
    THEN DictSet(temp, name, strip(row[key])) ELSE temp

\* history: the row is noted under the trimmed text of its identity cell
Noted(hist, h, row) ==
    IF name_key(h) = NoKey \/ row.name = None THEN hist
    ELSE LET k == strip(row.name) IN
         [n \in DOMAIN hist \cup {k} |->
            IF n = k
            THEN [row |-> row, times |-> IF k \in DOMAIN hist THEN 2 ELSE 1]
            ELSE hist[n]]

\* one pass of the body of "for row in reader"
ReadRow(row, pos) ==
    /\ pc = "read"
    /\ nread < MaxRows
    /\ nread' = nread + 1
    /\ last_row' = Noted(last_row, header, row)
    /\ UNCHANGED <<header, edges, node_list, parseVars, layoutVars>>
    /\ IF StripRaises(row, name_key(header))
       THEN /\ pc' = "raised"
            /\ raised' = "AttributeError"
            /\ UNCHANGED <<nodes, temp_dependencies, temp_requirements>>
       ELSE LET name == IF name_key(header) # NoKey THEN strip(row.name) ELSE <<>> IN
            IF name = <<>>
            THEN UNCHANGED <<pc, raised, nodes, temp_dependencies, temp_requirements>>
            ELSE /\ nodes' = DictSet(nodes, name, NewNode(header, row, name, pos))
                 /\ IF StripRaises(row, deps_key(header))
                    THEN /\ pc' = "raised"
                         /\ raised' = "AttributeError"
                         /\ UNCHANGED <<temp_dependencies, temp_requirements>>
                    ELSE /\ temp_dependencies' =
                              StoreRaw(temp_dependencies, row, deps_key(header), name)
                         /\ IF StripRaises(row, reqs_key(header))
                            THEN /\ pc' = "raised"
                                 /\ raised' = "AttributeError"
                                 /\ UNCHANGED temp_requirements
                            ELSE /\ temp_requirements' =
                                      StoreRaw(temp_requirements, row, reqs_key(header), name)
                                 /\ UNCHANGED <<pc, raised>>

\* the reader is exhausted: the "with" block ends
EndOfFile ==
    /\ pc = "read"
    /\ pc' = "deps"
    /\ UNCHANGED <<loadVars, edges, raised, node_list, parseVars, layoutVars>>

(***************************************************************************)
(* load_network: edges and direct counts                                   *)
(***************************************************************************)
\* no membership test: every target counts as found
ResolvesAlways(target_name, ns) == TRUE
\* "if target_name in nodes"
Resolves(target_name, ns) == target_name \in DictKeys(ns)

\* the dependency edge left in reading order, from A to B
DepEdgeNotInverted(source_name, target_name) ==
    [source |-> source_name, target |-> target_name]
\* A depends on B: edge from B to A
DepEdge(source_name, target_name) == [source |-> target_name, target |-> source_name]
\* A required by B: edge from A to B
ReqEdge(source_name, target_name) == [source |-> source_name, target |-> target_name]

\* any(e['source'] == s and e['target'] == t for e in edges)
EdgeExists(es, s, t) == \E i \in 1..Len(es) : es[i].source = s /\ es[i].target = t

\* the inner loop of "Process dependencies" for one cell
RECURSIVE AddDependencies(_, _, _, _)
AddDependencies(targets, source_name, ns, es) ==
    IF targets = <<>> THEN es
    ELSE AddDependencies(Tail(targets), source_name, ns,
             IF Resolves(Head(targets), ns)
             THEN Append(es, DepEdge(source_name, Head(targets)))
             ELSE es)                               \* warning printed

\* the inner loop of "Process requirements" for one cell
RECURSIVE AddRequirements(_, _, _, _)
AddRequirements(targets, source_name, ns, es) ==
    IF targets = <<>> THEN es
    ELSE AddRequirements(Tail(targets), source_name, ns,
             IF Resolves(Head(targets), ns)
             THEN IF ~EdgeExists(es, source_name, Head(targets))
                  THEN Append(es, ReqEdge(source_name, Head(targets)))
                  ELSE es
             ELSE es)                               \* warning printed

\* for source_name, deps_raw in temp_dependencies.items()
RECURSIVE DependencyLoop(_, _, _)
DependencyLoop(temp, ns, es) ==
    IF temp = <<>> THEN es
    ELSE DependencyLoop(Tail(temp), ns,
             AddDependencies(parse_relations(Head(temp).value), Head(temp).key, ns, es))

\* for source_name, reqs_raw in temp_requirements.items()
RECURSIVE RequirementLoop(_, _, _)
RequirementLoop(temp, ns, es) ==
    IF temp = <<>> THEN es
    ELSE RequirementLoop(Tail(temp), ns,
             AddRequirements(parse_relations(Head(temp).value), Head(temp).key, ns, es))

ProcessDependencies ==
    /\ pc = "deps"
    /\ edges' = DependencyLoop(temp_dependencies, nodes, <<>>)
    /\ pc' = "reqs"
    /\ UNCHANGED <<loadVars, raised, node_list, parseVars, layoutVars>>

ProcessRequirements ==
    /\ pc = "reqs"
    /\ edges' = RequirementLoop(temp_requirements, nodes, edges)
    /\ pc' = "counts"
    /\ UNCHANGED <<loadVars, raised, node_list, parseVars, layoutVars>>

\* sum(1 for e in edges if e['source'] == name)
CountSource(es, name) == Cardinality({i \in 1..Len(es) : es[i].source = name})
\* the target count taken from the distinct sources pointing at the node
CountTargetDistinct(es, name) ==
    Cardinality({es[i].source : i \in {k \in 1..Len(es) : es[k].target = name}})
\* sum(1 for e in edges if e['target'] == name)
CountTarget(es, name) == Cardinality({i \in 1..Len(es) : es[i].target = name})

WithCounts(node, es) ==
    node @@ [req_direct |-> CountSource(es, node.name),
             dep_direct |-> CountTarget(es, node.name)]

\* "Calculate direct counts from edges" and the return statement
CalculateCounts ==
    /\ pc = "counts"
    /\ nodes' = [i \in 1..Len(nodes) |->
                   [key |-> nodes[i].key, value |-> WithCounts(nodes[i].value, edges)]]
    /\ node_list' = DictValues(nodes')
    /\ pc' = "loaded"
    /\ UNCHANGED <<header, temp_dependencies, temp_requirements, last_row, nread,
                   edges, raised, parseVars, layoutVars>>

(***************************************************************************)
(* export_json: the per-node metrics                                       *)
(***************************************************************************)
\* a quotient of two numbers, kept exact
Ratio(num, den) == [num |-> num, den |-> den]

\* n['req_direct'] for n in nodes if n['req_direct'] > 0
PositiveReqs(ns) == {ns[i].req_direct : i \in {k \in 1..Len(ns) : ns[k].req_direct > 0}}

\* max() of an empty sequence raises ValueError
InfluenceRaises(ns) == ns # <<>> /\ PositiveReqs(ns) = {}

\* max(1, max(...))
InfluenceDivisor(ns) ==
    LET m == SetMax(PositiveReqs(ns)) IN IF m > 1 THEN m ELSE 1

\* (req_direct * 0.7 + dep_direct * 0.3) / divisor, in tenths over the divisor
Influence(node, ns) ==
    Ratio(7 * node.req_direct + 3 * node.dep_direct, 10 * InfluenceDivisor(ns))

\* the "Network topology metrics" of one node
WithTopology(node) ==
    node @@ [network_centrality |-> node.req_direct * node.dep_direct,
             foundation_efficiency |-> Ratio(node.req_direct, 1 + node.dep_direct),
             total_connections |-> node.req_direct + node.dep_direct]

WithMetrics(node, ns) ==
    WithTopology(node) @@ [connection_influence |-> Influence(node, ns)]

ExportJson ==
    /\ pc = "loaded"
    /\ IF InfluenceRaises(node_list)
       THEN /\ pc' = "raised"
            /\ raised' = "ValueError"
            /\ node_list' = [node_list EXCEPT ![1] = WithTopology(@)]
       ELSE /\ pc' = "exported"
            /\ node_list' = [i \in 1..Len(node_list) |-> WithMetrics(node_list[i], node_list)]
            /\ UNCHANGED raised
    /\ UNCHANGED <<loadVars, edges, parseVars, layoutVars>>

(***************************************************************************)
(* The loader followed by the serializer's metrics                         *)
(***************************************************************************)
Idle ==
    /\ raw_str = <<>> /\ nfrags = 0 /\ clean_targets = <<>>
    /\ nodes0 = <<>> /\ edges0 = <<>> /\ layout_type = "force" /\ iter = 0 /\ idx = 0
    /\ pass_start = <<>>

Init ==
    /\ pc = "read"
    /\ header \in HeaderPool
    /\ nodes = <<>>
    /\ temp_dependencies = <<>>
    /\ temp_requirements = <<>>
    /\ edges = <<>>
    /\ raised = NoException
    /\ last_row = <<>>
    /\ nread = 0
    /\ node_list = <<>>
    /\ Idle

Next ==
    \/ \E row \in RowPool, pos \in PositionPool : ReadRow(row, pos)
    \/ EndOfFile
    \/ ProcessDependencies
    \/ ProcessRequirements
    \/ CalculateCounts
    \/ ExportJson

Spec == Init /\ [][Next]_vars

(***************************************************************************)
(* Properties of load_network and export_json                              *)
(***************************************************************************)
\* load_network has returned (nodes, edges) = (node_list, edges)
Returned == pc = "loaded"

NodeNames(ns) == {ns[i].name : i \in 1..Len(ns)}
IndexOf(ns, name) == CHOOSE i \in 1..Len(ns) : ns[i].name = name

\* the targets parse_relations finds in a cell of a row (none in a missing cell)
CellTargets(h, row, key) ==
    IF key = NoKey \/ row[key] = None THEN {}
    ELSE LET ts == parse_relations(row[key]) IN {ts[i] : i \in 1..Len(ts)}

\* C1: graph closure.  Every edge of the returned edge list has its source and
\* its target among the names of the returned nodes; a relation target that
\* names no node has produced no edge.
C1_GraphClosure ==
    Returned =>
        \A i \in 1..Len(edges) :
            /\ edges[i].source \in NodeNames(node_list)
            /\ edges[i].target \in NodeNames(node_list)

\* a table with an edge and with a relation target that names no node
C1_Witness ==
    /\ Returned
    /\ edges # <<>>
    /\ \E n \in DOMAIN last_row :
         \E t \in CellTargets(header, last_row[n].row, deps_key(header))
                  \cup CellTargets(header, last_row[n].row, reqs_key(header)) :
            t \notin NodeNames(node_list)

\* C2: edge uniqueness.  The returned edge list holds no two entries with the
\* same (source, target) pair.
C2_EdgeUniqueness ==
    Returned =>
        \A i, j \in 1..Len(edges) : i # j => edges[i] # edges[j]

\* C3: load_network raises nothing when the file exists: no row, short rows
\* included, makes it leave with an exception.
C3_LoadRaisesNothing == raised # "AttributeError"

\* C4: export_json completes on every node list; where no node has a positive
\* req_direct every connection_influence is 0, otherwise it is
\* (0.7 * req_direct + 0.3 * dep_direct) / (maximum req_direct).
C4_InfluenceDefined ==
    /\ raised # "ValueError"
    /\ pc = "exported" =>
         \A i \in 1..Len(node_list) :
            LET n == node_list[i]
                inf == n.connection_influence
                reqs == {node_list[k].req_direct : k \in 1..Len(node_list)}
            IN  IF \A r \in reqs : r <= 0
                THEN inf.num = 0
                ELSE inf.num * (10 * SetMax(reqs)) =
                     (7 * n.req_direct + 3 * n.dep_direct) * inf.den

\* C5: one node per distinct non-empty trimmed identity value, none for an
\* empty identity, and the row-derived attributes of a node are those of the
\* last row with its name.
C5_LastRowWins ==
    Returned =>
        /\ NodeNames(node_list) = DOMAIN last_row \ {<<>>}
        /\ Len(node_list) = Cardinality(DOMAIN last_row \ {<<>>})
        /\ \A i \in 1..Len(node_list) :
             LET n == node_list[i]
                 row == last_row[n.name].row
                 Cell(c) == IF c \in header THEN row[c] ELSE <<>>
                 Num(c) == IF c \in header THEN ScoreOf(row[c]) ELSE 0
             IN  /\ n.familiarity = Cell("fam")
                 /\ n.interest = Cell("int")
                 /\ n.market = Cell("mkt")
                 /\ n.familiarity_num = emoji_to_num(Cell("fam"))
                 /\ n.interest_num = emoji_to_num(Cell("int"))
                 /\ n.market_num = emoji_to_num(Cell("mkt"))
                 /\ n.req_score = Num("req_score")
                 /\ n.master_score = Num("master_score")
                 /\ n.req_indirect = Num("req_indirect")
                 /\ n.dep_indirect = Num("dep_indirect")

\* a name read in several rows whose last row has other ratings and scores than
\* an earlier one, and a row with an empty identity
C5_Witness ==
    /\ Returned
    /\ <<>> \in DOMAIN last_row
    /\ \E n \in DOMAIN last_row \ {<<>>} :
         /\ last_row[n].times = 2
         /\ last_row[n].row.fam = Attr1.fam
         /\ node_list[IndexOf(node_list, n)].familiarity_num = 5
         /\ node_list[IndexOf(node_list, n)].req_score = (3 * Scale) \div 2
    /\ Len(node_list) < nread - 1

\* C6: for every node N and every target T parsed from the depends-on cell of
\* N's row that names a node there is an edge (T, N), and for every such T of
\* its required-by cell an edge (N, T), wherever T's row stands in the input.
C6_EdgeDirection ==
    Returned =>
        \A n \in NodeNames(node_list) :
            /\ \A t \in CellTargets(header, last_row[n].row, deps_key(header)) :
                 t \in NodeNames(node_list) => EdgeExists(edges, t, n)
            /\ \A t \in CellTargets(header, last_row[n].row, reqs_key(header)) :
                 t \in NodeNames(node_list) => EdgeExists(edges, n, t)

\* N depends on a T whose only row comes after N's, N is required by such a T,
\* and both edges are there
C6_Witness ==
    /\ Returned
    /\ \E n, t \in NodeNames(node_list) :
         /\ n # t
         /\ IndexOf(node_list, n) < IndexOf(node_list, t)
         /\ last_row[n].times = 1 /\ last_row[t].times = 1
         /\ t \in CellTargets(header, last_row[n].row, deps_key(header))
         /\ EdgeExists(edges, t, n)
         /\ ~EdgeExists(edges, n, t)

\* number of entries e of es with e[field] = name, counted entry by entry
RECURSIVE Occurrences(_, _, _)
Occurrences(es, field, name) ==
    IF es = <<>> THEN 0
    ELSE (IF Head(es)[field] = name THEN 1 ELSE 0) + Occurrences(Tail(es), field, name)

RECURSIVE SumField(_, _)
SumField(ns, field) ==
    IF ns = <<>> THEN 0 ELSE Head(ns)[field] + SumField(Tail(ns), field)

\* C8: req_direct of a node is the number of edge entries with the node as
\* source, dep_direct the number with it as target, and both sums over the
\* nodes equal the length of the edge list.
C8_DegreeCounts ==
    Returned =>
        /\ \A i \in 1..Len(node_list) :
             /\ node_list[i].req_direct = Occurrences(edges, "source", node_list[i].name)
             /\ node_list[i].dep_direct = Occurrences(edges, "target", node_list[i].name)
        /\ SumField(node_list, "req_direct") = Len(edges)
        /\ SumField(node_list, "dep_direct") = Len(edges)

\* a node that is source of one edge and target of another, as Y in X->Y, Y->Z
C8_Witness ==
    /\ Returned
    /\ Len(edges) >= 2
    /\ \E i \in 1..Len(node_list) :
         /\ node_list[i].req_direct >= 1
         /\ node_list[i].dep_direct >= 1
         /\ node_list[i].req_direct # node_list[i].dep_direct

(***************************************************************************)
(* parse_relations applied to cells built from fragments                   *)
(***************************************************************************)
\* fragments one cell is built from
MaxFrags == 4

Fragments == {<<"A">>, <<"B">>, <<",">>, <<" ">>, <<"(">>, <<")">>,
              <<" ", "(", "%">>, <<".", "c", "s", "v", ")">>, <<".", "m", "d", ")">>}

\* "A, B (foo%20bar.csv), C(x, y)"
ExampleCell ==
    <<"A", ",", " ", "B", " ", "(", "f", "o", "o", "%", "2", "0", "b", "a", "r",
      ".", "c", "s", "v", ")", ",", " ", "C", "(", "x", ",", " ", "y", ")">>

LoaderIdle ==
    /\ header = Columns /\ nodes = <<>> /\ temp_dependencies = <<>>
    /\ temp_requirements = <<>> /\ last_row = <<>> /\ nread = 0

InitParse ==
    /\ pc = "cell"
    /\ raw_str = <<>>
    /\ nfrags = 0
    /\ clean_targets = <<>>
    /\ edges = <<>>
    /\ raised = NoException
    /\ node_list = <<>>
    /\ LoaderIdle
    /\ nodes0 = <<>> /\ edges0 = <<>> /\ layout_type = "force" /\ iter = 0 /\ idx = 0
    /\ pass_start = <<>>

\* the cell text grows by one fragment
AppendFragment(f) ==
    /\ pc = "cell"
    /\ nfrags < MaxFrags
    /\ raw_str' = raw_str \o f
    /\ nfrags' = nfrags + 1
    /\ UNCHANGED <<pc, clean_targets, loadVars, edges, raised, node_list, layoutVars>>

\* the cell is the example of the relation parser's description
TakeExample ==
    /\ pc = "cell"
    /\ nfrags = 0
    /\ raw_str' = ExampleCell
    /\ nfrags' = MaxFrags
    /\ UNCHANGED <<pc, clean_targets, loadVars, edges, raised, node_list, layoutVars>>

\* targets = parse_relations(raw_str)
ParseCell ==
    /\ pc = "cell"
    /\ clean_targets' = parse_relations(raw_str)
    /\ pc' = "parsed"
    /\ UNCHANGED <<raw_str, nfrags, loadVars, edges, raised, node_list, layoutVars>>

NextParse ==
    \/ \E f \in Fragments : AppendFragment(f)
    \/ TakeExample
    \/ ParseCell

SpecParse == InitParse /\ [][NextParse]_vars

\* parentheses opened minus parentheses closed before position i
DepthBefore(raw, i) ==
    Cardinality({k \in 1..(i - 1) : raw[k] = "("})
        - Cardinality({k \in 1..(i - 1) : raw[k] = ")"})

\* the commas met while the depth counter is 0
Separators(raw) == {i \in 1..Len(raw) : raw[i] = "," /\ DepthBefore(raw, i) = 0}

\* the pieces between separators, left to right
Pieces(raw) ==
    LET starts == {1} \cup {i + 1 : i \in Separators(raw)}
        Start(k) == CHOOSE s \in starts : Cardinality({t \in starts : t < s}) = k - 1
        End(s) == SetMin({i \in Separators(raw) : i >= s} \cup {Len(raw) + 1}) - 1
    IN  [k \in 1..Cardinality(starts) |-> SubSeq(raw, Start(k), End(Start(k)))]

\* each piece trimmed, its annotation removed, empty results dropped
ExpectedTargets(raw) ==
    LET NonEmpty(t) == t # <<>>
        cleaned == [k \in 1..Len(Pieces(raw)) |-> CleanName(strip(Pieces(raw)[k]))]
    IN  SelectSeq(cleaned, NonEmpty)

\* C7: parse_relations splits a cell at exactly the commas met at depth 0, trims
\* each piece, removes the trailing annotation, drops empty pieces, and returns
\* a list for every cell, unbalanced parentheses included; the example cell
\* yields A, B, C(x, y).
C7_ParseRelations ==
    pc = "parsed" =>
        /\ clean_targets = ExpectedTargets(raw_str)
        /\ \A k \in 1..Len(clean_targets) :
             clean_targets[k] # <<>> /\ clean_targets[k] = strip(clean_targets[k])
        /\ \A k \in 1..Len(Pieces(raw_str)) :
             LET piece == strip(Pieces(raw_str)[k])
                 name == CleanName(piece)
                 cut == SubSeq(piece, Len(name) + 1, Len(piece))
             IN  /\ name = SubSeq(piece, 1, Len(name))
                 /\ name # piece =>
                      /\ cut[1] \in Whitespace
                      /\ strip(cut)[1] = "("
                      /\ "%" \in {cut[i] : i \in 1..Len(cut)}
                      /\ \E ext \in {ExtCsv, ExtMd} :
                           SubSeq(cut, Len(cut) - Len(ext) + 1, Len(cut)) = ext
                 /\ ("%" \notin {piece[i] : i \in 1..Len(piece)}
                       \/ piece[Len(piece)] # ")") => name = piece
        /\ raw_str = ExampleCell =>
             clean_targets = << <<"A">>, <<"B">>, <<"C", "(", "x", ",", " ", "y", ")">> >>

\* the example cell has been parsed: a comma inside parentheses was kept and an
\* annotation was removed
C7_Witness ==
    /\ pc = "parsed"
    /\ raw_str = ExampleCell
    /\ Len(clean_targets) = 3
    /\ Len(Flatten(clean_targets)) < Len(raw_str) - 10

(***************************************************************************)
(* apply_layout                                                            *)
(***************************************************************************)
ITERATIONS == 100
SPRING_LENGTH == 3
REPULSION_STRENGTH == 50

\* math.sqrt: the integer nearest to the square root of n
RECURSIVE SqrtBetween(_, _, _)
SqrtBetween(n, lo, hi) ==
    \* invariant: lo * lo <= n < hi * hi
    IF hi - lo <= 1 THEN (IF n - lo * lo > lo THEN lo + 1 ELSE lo)
    ELSE LET mid == (lo + hi) \div 2
         IN  IF mid * mid <= n THEN SqrtBetween(n, mid, hi) ELSE SqrtBetween(n, lo, mid)

Sqrt(n) == SqrtBetween(n, 0, 46341)

\* math.sqrt(dx*dx + dy*dy + dz*dz) + 0.1
FlooredDist(dx, dy, dz) == Sqrt(dx * dx + dy * dy + dz * dz) + Scale \div 10

\* REPULSION_STRENGTH / (dist * dist)
RepulsionForce(dist) == Div(Div(REPULSION_STRENGTH * Scale * Scale, dist) * Scale, dist)

\* a spring ten times as stiff: (dist - SPRING_LENGTH) * 1.0
SpringForceStiff(dist) == dist - SPRING_LENGTH * Scale

\* (dist - SPRING_LENGTH) * 0.1
SpringForce(dist) == Div(dist - SPRING_LENGTH * Scale, 10)

\* (d / dist) * force
Along(d, dist, force) == Div(d * force, dist)

\* the contribution of node n2 to the force sum of node n1
Repulsion(n1, n2) ==
    LET dx == n1.x - n2.x
        dy == n1.y - n2.y
        dz == n1.z - n2.z
        dist == FlooredDist(dx, dy, dz)
        force == RepulsionForce(dist)
    IN  <<Along(dx, dist, force), Along(dy, dist, force), Along(dz, dist, force)>>

\* fx, fy, fz of node i: the sum over every j # i, from node j on
RECURSIVE ForceSum(_, _, _)
ForceSum(ns, i, j) ==
    IF j > Len(ns) THEN <<0, 0, 0>>
    ELSE LET rest == ForceSum(ns, i, j + 1)
             f == IF i = j THEN <<0, 0, 0>> ELSE Repulsion(ns[i], ns[j])
         IN  <<f[1] + rest[1], f[2] + rest[2], f[3] + rest[3]>>

\* a node put together again from its name and its new position only
MovedNodeRebuilt(node, dx, dy, dz) ==
    [name |-> node.name, x |-> node.x + dx, y |-> node.y + dy, z |-> node.z + dz]

\* n['x'] += dx; n['y'] += dy; n['z'] += dz
MovedNode(node, dx, dy, dz) ==
    [node EXCEPT !.x = @ + dx, !.y = @ + dy, !.z = @ + dz]

\* next((k for n in nodes if n['name'] == name), None), as an index or 0
FirstNamed(ns, name) ==
    LET hits == {k \in 1..Len(ns) : ns[k].name = name}
    IN  IF hits = {} THEN 0 ELSE SetMin(hits)

\* the body of the spring loop for one edge
Sprung(ns, edge) ==
    LET s == FirstNamed(ns, edge.source)
        t == FirstNamed(ns, edge.target)
    IN  IF s = 0 \/ t = 0 THEN ns                       \* continue
        ELSE LET dx == ns[t].x - ns[s].x
                 dy == ns[t].y - ns[s].y
                 dz == ns[t].z - ns[s].z
                 dist == FlooredDist(dx, dy, dz)
                 force == SpringForce(dist)
                 fx == Along(dx, dist, force)
                 fy == Along(dy, dist, force)
                 fz == Along(dz, dist, force)
                 pulled == [ns EXCEPT ![s] = MovedNode(@, fx, fy, fz)]
             IN  [pulled EXCEPT ![t] = MovedNode(@, -fx, -fy, -fz)]

\* apply_layout is entered; "if layout_type == 'force'" and the first range() step
EnterLayout ==
    /\ pc = "call"
    /\ IF layout_type = "force" /\ ITERATIONS > 0
       THEN pc' = "repulsion" /\ idx' = 1 /\ pass_start' = node_list
       ELSE pc' = "layout_done" /\ idx' = 0 /\ UNCHANGED pass_start
    /\ UNCHANGED <<node_list, edges, nodes0, edges0, layout_type, iter,
                   loadVars, raised, parseVars>>

\* the pass that takes every force sum from the positions the pass began with
RepelNodeFromSnapshot ==
    /\ pc = "repulsion"
    /\ idx <= Len(node_list)
    /\ LET f == ForceSum(pass_start, idx, 1)
       IN  node_list' = [node_list EXCEPT
                           ![idx] = MovedNode(@, Div(f[1], 100), Div(f[2], 100), Div(f[3], 100))]
    /\ idx' = idx + 1
    /\ UNCHANGED <<pc, edges, nodes0, edges0, layout_type, iter, pass_start,
                   loadVars, raised, parseVars>>

\* one pass of "for i, n1 in enumerate(nodes)": node idx is moved in place
RepelNode ==
    /\ pc = "repulsion"
    /\ idx <= Len(node_list)
    /\ LET f == ForceSum(node_list, idx, 1)
       IN  node_list' = [node_list EXCEPT
                           ![idx] = MovedNode(@, Div(f[1], 100), Div(f[2], 100), Div(f[3], 100))]
    /\ idx' = idx + 1
    /\ UNCHANGED <<pc, edges, nodes0, edges0, layout_type, iter, pass_start,
                   loadVars, raised, parseVars>>

\* the repulsion loop is exhausted: "for edge in edges" begins
BeginSpring ==
    /\ pc = "repulsion"
    /\ idx > Len(node_list)
    /\ pc' = "spring"
    /\ idx' = 1
    /\ UNCHANGED <<node_list, edges, nodes0, edges0, layout_type, iter, pass_start,
                   loadVars, raised, parseVars>>

\* one pass of "for edge in edges"
SpringEdge ==
    /\ pc = "spring"
    /\ idx <= Len(edges)
    /\ node_list' = Sprung(node_list, edges[idx])
    /\ idx' = idx + 1
    /\ UNCHANGED <<pc, edges, nodes0, edges0, layout_type, iter, pass_start,
                   loadVars, raised, parseVars>>

\* an outer loop that also stops once an iteration has moved no node
EndIterationOnConvergence ==
    /\ pc = "spring"
    /\ idx > Len(edges)
    /\ iter' = iter + 1
    /\ IF iter + 1 < ITERATIONS /\ node_list # pass_start
       THEN pc' = "repulsion" /\ idx' = 1 /\ pass_start' = node_list
       ELSE pc' = "layout_done" /\ idx' = 0 /\ UNCHANGED pass_start
    /\ UNCHANGED <<node_list, edges, nodes0, edges0, layout_type,
                   loadVars, raised, parseVars>>

\* the spring loop is exhausted: next step of "for _ in range(ITERATIONS)"
EndIteration ==
    /\ pc = "spring"
    /\ idx > Len(edges)
    /\ iter' = iter + 1
    /\ IF iter + 1 < ITERATIONS
       THEN pc' = "repulsion" /\ idx' = 1 /\ pass_start' = node_list
       ELSE pc' = "layout_done" /\ idx' = 0 /\ UNCHANGED pass_start
    /\ UNCHANGED <<node_list, edges, nodes0, edges0, layout_type,
                   loadVars, raised, parseVars>>

NextLayout ==
    \/ EnterLayout
    \/ RepelNode
    \/ BeginSpring
    \/ SpringEdge
    \/ EndIteration

(***************************************************************************)
(* apply_layout: the calls explored                                        *)
(***************************************************************************)
\* initial distances tried for a pair of nodes, spread over (0, 10]
GridPoints == 100

LayoutTypes == {"force", "sphere", "hierarchical"}

\* a node as load_network returns it
LayoutNode(name, pos, es) ==
    WithCounts(NewNode(Columns, MkRow(name, <<>>, <<>>, Attr1), name, pos), es)

LayoutNodes(names, positions, es) ==
    [i \in 1..Len(names) |-> LayoutNode(names[i], positions[i], es)]

\* two nodes at distance d apart along the x axis, or along (0, 3, -4)
PairEdges(dir) == IF dir = 1 THEN <<ReqEdge(tA, tB)>> ELSE <<ReqEdge(tB, tA)>>
PairPositions(d, dir) ==
    LET a == <<Scale, 2 * Scale, -3 * Scale>>
    IN  IF dir = 1 THEN <<a, <<a[1] + d, a[2], a[3]>> >>
        ELSE <<a, <<a[1], a[2] + (3 * d) \div 5, a[3] - (4 * d) \div 5>> >>

PairCalls ==
    {[nodes |-> LayoutNodes(<<tA, tB>>, PairPositions(k * ((10 * Scale) \div GridPoints), dir),
                            PairEdges(dir)),
      edges |-> PairEdges(dir), layout |-> "force"] :
        k \in 1..GridPoints, dir \in {1, 2}}

\* three nodes, one of them without edge partner in the list
tC == <<"C">>
tZ == <<"Z">>
TriangleEdges == <<ReqEdge(tA, tB), ReqEdge(tB, tC), ReqEdge(tA, tZ), ReqEdge(tB, tA)>>
TrianglePositions == << <<0, 0, 0>>, <<Scale, 0, 0>>, <<0, 2 * Scale, Scale>> >>

OtherCalls ==
    {[nodes |-> LayoutNodes(<<tA, tB, tC>>, TrianglePositions, TriangleEdges),
      edges |-> TriangleEdges, layout |-> l] : l \in LayoutTypes}
    \cup {[nodes |-> <<>>, edges |-> <<>>, layout |-> l] : l \in LayoutTypes}
    \cup {[nodes |-> LayoutNodes(<<tA, tB>>, PairPositions(Scale, 1), <<>>),
           edges |-> <<>>, layout |-> l] : l \in LayoutTypes}

InitLayout ==
    /\ pc = "call"
    /\ \E call \in PairCalls \cup OtherCalls :
         /\ node_list = call.nodes
         /\ edges = call.edges
         /\ layout_type = call.layout
    /\ nodes0 = node_list
    /\ edges0 = edges
    /\ iter = 0
    /\ idx = 0
    /\ pass_start = <<>>
    /\ raised = NoException
    /\ LoaderIdle
    /\ raw_str = <<>> /\ nfrags = 0 /\ clean_targets = <<>>

SpecLayout == InitLayout /\ [][NextLayout]_vars

(***************************************************************************)
(* Properties of apply_layout                                              *)
(***************************************************************************)
\* a node without its position fields
NonPosition(node) == [f \in DOMAIN node \ {"x", "y", "z"} |-> node[f]]

\* C9: apply_layout changes nothing but x, y, z: the node list keeps its length,
\* order and names, every other attribute of every node and the edge list stay
\* as they were, and with a layout_type other than 'force' the positions stay
\* as well.
C9_LayoutFrame ==
    /\ Len(node_list) = Len(nodes0)
    /\ \A i \in 1..Len(nodes0) :
         /\ DOMAIN node_list[i] = DOMAIN nodes0[i]
         /\ NonPosition(node_list[i]) = NonPosition(nodes0[i])
    /\ edges = edges0
    /\ layout_type # "force" => node_list = nodes0

\* a force layout of three nodes has ended and has moved every node
C9_Witness ==
    /\ pc = "layout_done"
    /\ layout_type = "force"
    /\ iter = ITERATIONS
    /\ Len(node_list) = 3
    /\ \A i \in 1..Len(node_list) :
         <<node_list[i].x, node_list[i].y, node_list[i].z>>
             # <<nodes0[i].x, nodes0[i].y, nodes0[i].z>>

\* the distance between the first two nodes of ns
PairDistance(ns) ==
    Sqrt((ns[2].x - ns[1].x) * (ns[2].x - ns[1].x)
         + (ns[2].y - ns[1].y) * (ns[2].y - ns[1].y)
         + (ns[2].z - ns[1].z) * (ns[2].z - ns[1].z))

\* the separation of the pair along the direction that connected it at first
PairSeparation(ns, ns0) ==
    (ns[2].x - ns[1].x) * (ns0[2].x - ns0[1].x)
    + (ns[2].y - ns[1].y) * (ns0[2].y - ns0[1].y)
    + (ns[2].z - ns[1].z) * (ns0[2].z - ns0[1].z)

\* two nodes joined by one edge, started between 0.1 and 10 apart, after the
\* first iteration (repulsion pass, then spring pass)
PairAfterOneIteration ==
    /\ layout_type = "force"
    /\ Len(nodes0) = 2
    /\ Len(edges0) = 1
    /\ {edges0[1].source, edges0[1].target} = NodeNames(nodes0)
    /\ PairDistance(nodes0) >= Scale \div 10
    /\ PairDistance(nodes0) <= 10 * Scale
    /\ iter = 1
    /\ pc = "repulsion"
    /\ idx = 1

\* C10, as stated: after one iteration the distance of the pair is no farther
\* from 3.0 than it was, and the separation along the connecting direction is
\* still positive.
C10_TowardSpringLength ==
    PairAfterOneIteration =>
        /\ Abs(PairDistance(node_list) - SPRING_LENGTH * Scale)
             <= Abs(PairDistance(nodes0) - SPRING_LENGTH * Scale)
        /\ PairSeparation(node_list, nodes0) > 0

\* C10, amended: after one iteration the distance of the pair is no farther
\* from 3.0 than it was or than 0.3, and the separation along the connecting
\* direction is still positive.
C10_TowardSpringLengthBand ==
    PairAfterOneIteration =>
        LET before == Abs(PairDistance(nodes0) - SPRING_LENGTH * Scale)
            band == (3 * Scale) \div 10
        IN  /\ Abs(PairDistance(node_list) - SPRING_LENGTH * Scale)
                 <= (IF before > band THEN before ELSE band)
            /\ PairSeparation(node_list, nodes0) > 0

\* a pair started 0.1 apart has been pushed beyond the spring length and pulled
\* back, ending nearer to 3.0 than it began
C10_Witness ==
    /\ PairAfterOneIteration
    /\ PairDistance(nodes0) = Scale \div 10
    /\ PairDistance(node_list) > SPRING_LENGTH * Scale
    /\ PairDistance(node_list) < 6 * Scale

\* the repulsion pass of the current iteration has just ended
RepulsionPassEnded == pc = "spring" /\ idx = 1

\* node i moved by 0.01 times the force sum it has among the positions ns
Repelled(ns, i) ==
    LET f == ForceSum(ns, i, 1)
    IN  MovedNode(ns[i], Div(f[1], 100), Div(f[2], 100), Div(f[3], 100))

\* the positions node i meets in an in-place pass: the nodes before it as the
\* pass left them, itself and the nodes after it as the pass found them
SeenBy(i) == [j \in 1..Len(pass_start) |-> IF j < i THEN node_list[j] ELSE pass_start[j]]

\* C11, as stated: every force sum of a repulsion pass is taken from the
\* positions at the start of the pass: the pass equals a snapshot pass.
C11_SnapshotPass ==
    RepulsionPassEnded =>
        \A i \in 1..Len(node_list) : node_list[i] = Repelled(pass_start, i)

\* C11, amended: the pass moves the nodes in place, in list order: the force
\* sum of node i is taken from the moved positions of the nodes before it and
\* the start-of-pass positions of the nodes after it; the first node alone
\* has a force sum taken from start-of-pass positions only.
C11_InPlacePass ==
    RepulsionPassEnded =>
        /\ \A i \in 1..Len(node_list) : node_list[i] = Repelled(SeenBy(i), i)
        /\ node_list # <<>> => node_list[1] = Repelled(pass_start, 1)

\* a pass over three nodes whose second and third node ended elsewhere than a
\* snapshot pass would have put them
C11_Witness ==
    /\ RepulsionPassEnded
    /\ Len(node_list) = 3
    /\ node_list[1] = Repelled(pass_start, 1)
    /\ node_list[2] # Repelled(pass_start, 2)
    /\ node_list[3] # Repelled(pass_start, 3)

\* the spring loop is at an edge one of whose endpoints is not in the node list
AtDanglingEdge ==
    /\ pc = "spring"
    /\ idx <= Len(edges)
    /\ \/ edges[idx].source \notin NodeNames(node_list)
       \/ edges[idx].target \notin NodeNames(node_list)

\* the loop steps of one iteration: one per node, the change of pass, one per
\* edge, the next step of range(ITERATIONS)
StepsPerIteration == Len(node_list) + 1 + Len(edges) + 1

\* the number of steps between the current state and the return of apply_layout
\* if the outer loop runs ITERATIONS times whatever the positions are
StepsToReturn ==
    CASE pc = "call" ->
             1 + (IF layout_type = "force" THEN ITERATIONS * StepsPerIteration ELSE 0)
      [] pc = "repulsion" ->
             (ITERATIONS - iter) * StepsPerIteration - (idx - 1)
      [] pc = "spring" ->
             (ITERATIONS - iter) * StepsPerIteration - (Len(node_list) + 1) - (idx - 1)
      [] OTHER -> 0

\* the steps of one call of apply_layout, in the order the loops allow
LayoutStepOrder ==
    \* the spring pass begins only when every node has had its repulsion update
    /\ (pc = "repulsion" /\ pc' = "spring") => (idx = Len(node_list) + 1 /\ iter' = iter)
    \* no repulsion update is made while the spring pass is under way
    /\ (pc = "spring" /\ pc' = "spring") =>
           (idx <= Len(edges) /\ idx' = idx + 1 /\ node_list' = Sprung(node_list, edges[idx]))
    \* an iteration ends only after the last edge, and is counted once
    /\ (pc = "spring" /\ pc' # "spring") => (idx = Len(edges) + 1 /\ iter' = iter + 1)
    \* an edge with an endpoint outside the node list moves nothing
    /\ AtDanglingEdge => node_list' = node_list
    \* every step is one step nearer to the return, whatever the positions are
    /\ StepsToReturn' = StepsToReturn - 1

\* C12: a force layout returns after exactly ITERATIONS iterations whatever
\* the positions are: every step brings the return one step nearer, a state
\* before the return always has a next loop step, and the return comes with
\* ITERATIONS iterations counted. In each iteration every node has its
\* repulsion update before any edge has its spring update, and an edge whose
\* source or target is not in the node list changes no position.
C12_FullIterations ==
    /\ [](layout_type = "force" =>
             /\ pc = "layout_done" => iter = ITERATIONS
             /\ pc \in {"repulsion", "spring"} =>
                    /\ iter < ITERATIONS
                    /\ idx \in 1..(IF pc = "repulsion" THEN Len(node_list) ELSE Len(edges)) + 1)
    /\ [](StepsToReturn >= 0 /\ (StepsToReturn = 0 <=> pc = "layout_done"))
    /\ [][LayoutStepOrder]_vars

\* a force layout whose edge list holds an edge to a name outside the node
\* list has returned after ITERATIONS iterations
C12_Witness ==
    /\ pc = "layout_done"
    /\ layout_type = "force"
    /\ iter = ITERATIONS
    /\ \E k \in 1..Len(edges) : edges[k].target \notin NodeNames(node_list)
    /\ node_list # nodes0

\* the edges the cells of the last row of every name ask for
LastRowEdges ==
    LET names == NodeNames(node_list)
        Deps(n) == CellTargets(header, last_row[n].row, deps_key(header)) \cap names
        Reqs(n) == CellTargets(header, last_row[n].row, reqs_key(header)) \cap names
    IN  UNION {{DepEdge(n, t) : t \in Deps(n)} \cup {ReqEdge(n, t) : t \in Reqs(n)} :
               n \in names}

\* C13: the edges load_network returns are exactly those asked for by the
\* depends-on and required-by cells of the last row of every name (taken as a
\* set of pairs): the relation text of an earlier row of a name gives no edge,
\* also when the relation cell of the name's last row is empty.
C13_LastRowEdges ==
    Returned => {edges[k] : k \in 1..Len(edges)} = LastRowEdges

=============================================================================
